---- MODULE Spec2Model ----
(***************************************************************************)
(* Study planner (schedule-flow): the event store of StudyPlanner.tsx, the *)
(* entry points that mutate it (AddEventForm, DayView quick add and drag   *)
(* and drop, the delete buttons), the sorted lists the views derive from   *)
(* it, the notifications of the bottom panel, and the navigation state     *)
(* (selectedDate, currentView) with the handlers that move it.             *)
(*                                                                         *)
(* Representation.  A JavaScript object is a function from its keys to     *)
(* values; a key that is missing reads as undefined.  undefined, null and  *)
(* the empty string are all the empty sequence << >> (the code only tests  *)
(* them for truthiness).  A string is the sequence of its characters.  A   *)
(* time string "HH:MM" is the sequence of its four digits (the colon sits  *)
(* at the same place in every time string and never decides a comparison). *)
(* A Date is an integer count of ticks, TicksPerDay ticks to the day.      *)
(***************************************************************************)
EXTENDS Integers, Sequences, FiniteSets, TLC

VARIABLES
  events,            \* StudyPlanner: the stored collection (useLocalStorage)
  issued,            \* ids crypto.randomUUID() has returned so far
  now,               \* the clock: what new Date() returns
  tz,                \* local time minus UTC, in ticks
  lastOp,            \* the store call or handler that ran last, with its arguments
  selectedDate,      \* StudyPlanner: selectedDate
  currentView,       \* StudyPlanner: currentView
  quickAddData,      \* DayView: quickAddData (<< >> is null)
  draggedEvent,      \* DayView: draggedEvent (<< >> is null, else <<id>>)
  draggedQuickEvent, \* DayView: draggedQuickEvent (<< >> is null)
  dragging,          \* the browser's drag session: what is being dragged
  shown,             \* the list a view computed last
  engine,            \* the JavaScript engine's sort algorithm
  currentTime,       \* Sidebar: currentTime
  filterMode,        \* TaskList: filterMode
  deleteMode,        \* TaskList: deleteMode
  selectedEvents     \* TaskList: selectedEvents, a Set: its ids in insertion order

\* the state of the sidebar and of the task list it mounts
sidebarVars == <<currentTime, filterMode, deleteMode, selectedEvents>>

vars == <<events, issued, now, tz, sidebarVars, lastOp, selectedDate, currentView, quickAddData,
          draggedEvent, draggedQuickEvent, dragging, shown, engine>>

-----------------------------------------------------------------------------
(* Bounds *)

MaxEvents == 2      \* the store holds at most this many events
MaxNow == 1         \* the clock stops ticking at this value
MaxLen == 3         \* longest store content the list views are computed for

TicksPerDay == 2    \* resolution of a Date: two ticks to the day

Ids == 1..3         \* the ids the generator draws from

-----------------------------------------------------------------------------
(* JavaScript values *)

Undefined == << >>

Truthy(v) == v # << >>

\* obj.key, undefined when the key is missing
Get(obj, k) == IF k \in DOMAIN obj THEN obj[k] ELSE Undefined

\* { ...a, ...b }
Spread(a, b) ==
  [k \in DOMAIN a \cup DOMAIN b |-> IF k \in DOMAIN b THEN b[k] ELSE a[k]]

NoFields == [k \in {} |-> Undefined]

Priorities == {"low", "medium", "high"}

RECURSIVE TrimStart(_)
TrimStart(s) ==
  IF s # << >> /\ Head(s) = " " THEN TrimStart(Tail(s)) ELSE s

RECURSIVE TrimEnd(_)
TrimEnd(s) ==
  IF s # << >> /\ s[Len(s)] = " " THEN TrimEnd(SubSeq(s, 1, Len(s) - 1)) ELSE s

\* String.prototype.trim
Trim(s) == TrimEnd(TrimStart(s))

\* `${hour.toString().padStart(2, '0')}:00`
TimeString(hour) == <<hour \div 10, hour % 10, 0, 0>>

-----------------------------------------------------------------------------
(* The event store: StudyPlanner.tsx *)

IdsOf(evs) == {evs[i].id : i \in 1..Len(evs)}

\* setEvents(prev => [...prev, { ...event, id, createdAt: new Date() }])
addEventLate(prev, event, id, t) ==
  Append(prev, Spread([id |-> id, createdAt |-> t], event))

addEvent(prev, event, id, t) ==
  Append(prev, Spread(event, [id |-> id, createdAt |-> t]))

\* setEvents(prev => prev.map(event => event.id === eventId ? {...event, ...updates} : event))
updateEventAll(prev, eventId, updates) ==
  [i \in 1..Len(prev) |-> Spread(prev[i], updates)]

updateEventKeepOld(prev, eventId, updates) ==
  [i \in 1..Len(prev) |->
     IF prev[i].id = eventId THEN Spread(updates, prev[i]) ELSE prev[i]]

updateEvent(prev, eventId, updates) ==
  [i \in 1..Len(prev) |->
     IF prev[i].id = eventId THEN Spread(prev[i], updates) ELSE prev[i]]

\* setEvents(prev => prev.filter(event => event.id !== eventId))
deleteEventKeep(prev, eventId) ==
  SelectSeq(prev, LAMBDA event : event.id = eventId)

deleteEventFirst(prev, eventId) ==
  IF eventId \in IdsOf(prev) THEN Tail(prev) ELSE prev

deleteEvent(prev, eventId) ==
  SelectSeq(prev, LAMBDA event : event.id # eventId)

\* id: crypto.randomUUID(): some id the generator has not returned before
randomUUIDWeak(used) == Ids

randomUUID(used) == Ids \ used

-----------------------------------------------------------------------------
(* The store on its own: add, update and delete called with any arguments *)

\* What a caller passes to add: an event without id, as the quick add and
\* the add form build it (the caller stamps createdAt itself, earlier).
StoreAddInputs ==
  { [title |-> <<"a">>, description |-> Undefined, date |-> 0,
     startTime |-> TimeString(9), priority |-> "medium", createdAt |-> 0],
    [title |-> <<"b">>, description |-> <<"d">>, date |-> TicksPerDay,
     startTime |-> Undefined, endTime |-> Undefined, priority |-> "high",
     customReminderTime |-> <<5>>, createdAt |-> 0] }

\* What a caller passes to update: Partial<Event>
StoreUpdateInputs ==
  { [startTime |-> TimeString(14)],
    [title |-> <<"c">>, priority |-> "low"] }

NoOp == [op |-> "init", id |-> 0, arg |-> NoFields]

\* Sidebar: useState(new Date()); TaskList: useState('day'), useState(false),
\* useState(new Set())
SidebarInit ==
  /\ currentTime = 0
  /\ filterMode = "day"
  /\ deleteMode = FALSE
  /\ selectedEvents = << >>

ViewInit ==
  /\ tz = 0
  /\ SidebarInit
  /\ selectedDate = 0
  /\ currentView = "day"
  /\ quickAddData = << >>
  /\ draggedEvent = << >>
  /\ draggedQuickEvent = << >>
  /\ dragging = <<"none", FALSE>>
  /\ shown = << >>
  /\ engine = "timsort"

StoreInit ==
  /\ events = << >>
  /\ issued = {}
  /\ now = 0
  /\ lastOp = NoOp
  /\ ViewInit

viewVars == <<tz, sidebarVars, selectedDate, currentView, quickAddData, draggedEvent, draggedQuickEvent,
              dragging, shown, engine>>

StoreAdd ==
  \E event \in StoreAddInputs :
    \E id \in randomUUID(issued) :
      /\ Len(events) < MaxEvents
      /\ events' = addEvent(events, event, id, now)
      /\ issued' = issued \cup {id}
      /\ lastOp' = [op |-> "add", id |-> id, arg |-> event]
      /\ UNCHANGED <<now, viewVars>>

StoreUpdate ==
  \E eventId \in Ids, updates \in StoreUpdateInputs :
    /\ events' = updateEvent(events, eventId, updates)
    /\ lastOp' = [op |-> "update", id |-> eventId, arg |-> updates]
    /\ UNCHANGED <<issued, now, viewVars>>

StoreDelete ==
  \E eventId \in Ids :
    /\ events' = deleteEvent(events, eventId)
    /\ lastOp' = [op |-> "delete", id |-> eventId, arg |-> NoFields]
    /\ UNCHANGED <<issued, now, viewVars>>

\* time passes between two calls
StoreTick ==
  /\ now < MaxNow
  /\ now' = now + 1
  /\ lastOp' = [op |-> "tick", id |-> 0, arg |-> NoFields]
  /\ UNCHANGED <<events, issued, viewVars>>

StoreNext == StoreAdd \/ StoreUpdate \/ StoreDelete \/ StoreTick

StoreSpec == StoreInit /\ [][StoreNext]_vars

-----------------------------------------------------------------------------
(* Dates *)

\* date.toDateString(): the local calendar day of a Date
toDateString(date, zone) == (date + zone) \div TicksPerDay

\* new Date("YYYY-MM-DD"): midnight UTC of that day
DateFromInput(day) == day * TicksPerDay

-----------------------------------------------------------------------------
(* The user interface: AddEventForm, DayView *)
(* (a session of the day view: currentView stays 'day', so the day view    *)
(* stays mounted and keeps its state; the view buttons are in the          *)
(* navigation section)                                                     *)

\* what the user types as a title, and what the time slots and selects offer
TitleInputs == { << >>, <<" ">>, <<" ", "a">> }
DayInputs == {0, 1}
TimeInputs == { Undefined, TimeString(9) }
DropHours == {9, 14}
QuickPriorities == {"medium", "high"}

FormInputs ==
  [title : TitleInputs, description : {<< >>}, date : DayInputs,
   startTime : TimeInputs, endTime : {<< >>}, priority : {"medium"},
   customReminderTime : {<< >>}]

\* AddEventForm.handleSubmit: if (!formData.title.trim()) return
FormTitleOkNoTrim(formData) == Truthy(formData.title)

FormTitleOk(formData) == Truthy(Trim(formData.title))

\* parseInt(s) of a string of digits (what a number input holds)
RECURSIVE parseInt(_)
parseInt(s) ==
  IF s = << >> THEN 0 ELSE parseInt(SubSeq(s, 1, Len(s) - 1)) * 10 + s[Len(s)]

\* AddEventForm.handleSubmit: eventData
\* (a || undefined maps the empty string to undefined; both are << >> here.
\* An optional number is << >> when undefined and <<n>> when it is n.)
eventData(formData, t) ==
  [title |-> Trim(formData.title),
   description |-> Trim(formData.description),
   date |-> DateFromInput(formData.date),
   startTime |-> formData.startTime,
   endTime |-> formData.endTime,
   priority |-> formData.priority,
   customReminderTime |-> IF Truthy(formData.customReminderTime)
                          THEN <<parseInt(formData.customReminderTime)>>
                          ELSE Undefined,
   createdAt |-> t]

\* DayView.handleCreateQuickEvent: if (!quickAddData || !quickAddData.title.trim()) return
QuickTitleOkNoTrim(data) == Truthy(data) /\ Truthy(data[1].title)

QuickTitleOk(data) == Truthy(data) /\ Truthy(Trim(data[1].title))

\* DayView.handleDropOnTimeSlot: newEvent
quickEvent(quick, date, hour, t) ==
  [title |-> quick.title,
   description |-> Get(quick, "description"),
   date |-> date,
   startTime |-> TimeString(hour),
   priority |-> quick.priority,
   createdAt |-> t]

\* parseInt(event.startTime.split(':')[0])
eventHour(startTime) == startTime[1] * 10 + startTime[2]

\* DayView: the events of timeSlots[hour], the ones drawn on the timeline
\* (membership only; their order is DayView.dayEvents below)
slotEventIds(evs, date, zone, hour) ==
  { evs[i].id : i \in { j \in 1..Len(evs) :
        /\ toDateString(evs[j].date, zone) = toDateString(date, zone)
        /\ Truthy(Get(evs[j], "startTime"))
        /\ eventHour(evs[j].startTime) = hour } }

Hours == 0..23

timelineIds(evs, date, zone) ==
  UNION { slotEventIds(evs, date, zone, h) : h \in Hours }

NoDrag == <<"none", FALSE>>

Init ==
  /\ events = << >>
  /\ issued = {}
  /\ now = 0
  /\ tz = 0
  /\ SidebarInit
  /\ lastOp = NoOp
  /\ selectedDate = 0
  /\ currentView = "day"
  /\ quickAddData = << >>
  /\ draggedEvent = << >>
  /\ draggedQuickEvent = << >>
  /\ dragging = NoDrag
  /\ shown = << >>
  /\ engine = "timsort"

\* Sidebar add form: the user fills the form in and submits it
SubmitAddForm ==
  \E formData \in FormInputs :
    /\ dragging = NoDrag
    /\ lastOp' = [op |-> "submit", id |-> 0, arg |-> [title |-> formData.title]]
    /\ IF ~FormTitleOk(formData)
       THEN UNCHANGED <<events, issued>>
       ELSE \E id \in randomUUID(issued) :
              /\ Len(events) < MaxEvents
              /\ events' = addEvent(events, eventData(formData, now), id, now)
              /\ issued' = issued \cup {id}
    /\ UNCHANGED <<now, tz, sidebarVars, selectedDate, currentView, quickAddData, draggedEvent,
                   draggedQuickEvent, dragging, shown, engine>>

\* DayView "Create New Event": setQuickAddData({ title: '', priority: 'medium' })
OpenQuickAdd ==
  /\ dragging = NoDrag
  /\ quickAddData = << >>
  /\ quickAddData' = << [title |-> << >>, priority |-> "medium"] >>
  /\ lastOp' = [op |-> "openQuick", id |-> 0, arg |-> NoFields]
  /\ UNCHANGED <<events, issued, now, tz, sidebarVars, selectedDate, currentView, draggedEvent,
                 draggedQuickEvent, dragging, shown, engine>>

\* DayView quick add inputs: setQuickAddData(prev => prev ? {...prev, ...} : null)
EditQuickAdd ==
  \E change \in [title : TitleInputs] \cup [priority : QuickPriorities] :
    /\ dragging = NoDrag
    /\ quickAddData # << >>
    /\ quickAddData' = << Spread(quickAddData[1], change) >>
    /\ lastOp' = [op |-> "editQuick", id |-> 0, arg |-> change]
    /\ UNCHANGED <<events, issued, now, tz, sidebarVars, selectedDate, currentView, draggedEvent,
                   draggedQuickEvent, dragging, shown, engine>>

\* DayView quick add X button: setQuickAddData(null)
CancelQuickAdd ==
  /\ dragging = NoDrag
  /\ quickAddData # << >>
  /\ quickAddData' = << >>
  /\ lastOp' = [op |-> "cancelQuick", id |-> 0, arg |-> NoFields]
  /\ UNCHANGED <<events, issued, now, tz, sidebarVars, selectedDate, currentView, draggedEvent,
                 draggedQuickEvent, dragging, shown, engine>>

\* DayView.handleCreateQuickEvent ("Create & Drag")
handleCreateQuickEvent ==
  /\ dragging = NoDrag
  /\ quickAddData # << >>
  /\ lastOp' = [op |-> "createQuick", id |-> 0, arg |-> quickAddData[1]]
  /\ IF ~QuickTitleOk(quickAddData)
     THEN UNCHANGED <<quickAddData, draggedQuickEvent>>
     ELSE /\ draggedQuickEvent' = quickAddData
          /\ quickAddData' = << >>
  /\ UNCHANGED <<events, issued, now, tz, sidebarVars, selectedDate, currentView, draggedEvent,
                 dragging, shown, engine>>

\* a drag session starts on an event of the timeline:
\* onDragStart={() => setDraggedEvent(event.id)}
DragStartEvent ==
  \E id \in timelineIds(events, selectedDate, tz) :
    /\ dragging = NoDrag
    /\ draggedEvent' = <<id>>
    /\ dragging' = <<"event", FALSE>>
    /\ lastOp' = [op |-> "dragStart", id |-> id, arg |-> NoFields]
    /\ UNCHANGED <<events, issued, now, tz, sidebarVars, selectedDate, currentView, quickAddData,
                   draggedQuickEvent, shown, engine>>

\* a drag session starts on the quick event card (it has no onDragStart)
DragStartQuick ==
  /\ dragging = NoDrag
  /\ draggedQuickEvent # << >>
  /\ dragging' = <<"quick", FALSE>>
  /\ lastOp' = [op |-> "dragStartQuick", id |-> 0, arg |-> NoFields]
  /\ UNCHANGED <<events, issued, now, tz, sidebarVars, selectedDate, currentView, quickAddData,
                 draggedEvent, draggedQuickEvent, shown, engine>>

\* a drag session starts on something else (selected text, a file)
DragStartOther ==
  /\ dragging = NoDrag
  /\ dragging' = <<"other", FALSE>>
  /\ lastOp' = [op |-> "dragStartOther", id |-> 0, arg |-> NoFields]
  /\ UNCHANGED <<events, issued, now, tz, sidebarVars, selectedDate, currentView, quickAddData,
                 draggedEvent, draggedQuickEvent, shown, engine>>

\* DayView.handleDropOnTimeSlot(hour): the drop event of a time slot
handleDropOnTimeSlot ==
  \E hour \in DropHours :
    /\ dragging # NoDrag
    /\ dragging[2] = FALSE
    /\ dragging' = <<dragging[1], TRUE>>
    /\ lastOp' = [op |-> "drop",
                  id |-> IF draggedEvent = << >> THEN 0 ELSE draggedEvent[1],
                  arg |-> [hour |-> hour]]
    /\ IF draggedQuickEvent # << >>
       THEN /\ \E id \in randomUUID(issued) :
                 /\ Len(events) < MaxEvents
                 /\ events' = addEvent(events,
                       quickEvent(draggedQuickEvent[1], selectedDate, hour, now),
                       id, now)
                 /\ issued' = issued \cup {id}
            /\ draggedQuickEvent' = << >>
            /\ UNCHANGED draggedEvent
       ELSE IF draggedEvent # << >>
       THEN /\ events' = updateEvent(events, draggedEvent[1],
                                     [startTime |-> TimeString(hour)])
            /\ draggedEvent' = << >>
            /\ UNCHANGED <<issued, draggedQuickEvent>>
       ELSE UNCHANGED <<events, issued, draggedEvent, draggedQuickEvent>>
    /\ UNCHANGED <<now, tz, sidebarVars, selectedDate, currentView, quickAddData, shown, engine>>

\* the drag session ends (after a drop or without one): the dragend event
\* of the source, onDragEnd={() => setDraggedEvent(null)} on an event,
\* onDragEnd={() => setDraggedQuickEvent(null)} on the quick event card
DragEnd ==
  /\ dragging # NoDrag
  /\ dragging' = NoDrag
  /\ lastOp' = [op |-> "dragEnd", id |-> 0, arg |-> NoFields]
  /\ draggedEvent' = IF dragging[1] = "event" THEN << >> ELSE draggedEvent
  /\ draggedQuickEvent' =
       IF dragging[1] = "quick" THEN << >> ELSE draggedQuickEvent
  /\ UNCHANGED <<events, issued, now, tz, sidebarVars, selectedDate, currentView, quickAddData, shown, engine>>

\* DayView trash button of an event of the timeline: onDeleteEvent(event.id)
DeleteFromTimeline ==
  \E id \in timelineIds(events, selectedDate, tz) :
    /\ dragging = NoDrag
    /\ events' = deleteEvent(events, id)
    /\ lastOp' = [op |-> "delete", id |-> id, arg |-> NoFields]
    /\ UNCHANGED <<issued, now, tz, sidebarVars, selectedDate, currentView, quickAddData, draggedEvent,
                   draggedQuickEvent, dragging, shown, engine>>

Next ==
  \/ SubmitAddForm
  \/ OpenQuickAdd
  \/ EditQuickAdd
  \/ CancelQuickAdd
  \/ handleCreateQuickEvent
  \/ DragStartEvent
  \/ DragStartQuick
  \/ DragStartOther
  \/ handleDropOnTimeSlot
  \/ DragEnd
  \/ DeleteFromTimeline

Spec == Init /\ [][Next]_vars

-----------------------------------------------------------------------------
(* The calendar *)

\* day 0 of the model is Sunday 25 February 2024 (months count from 0)
EpochDate == [year |-> 2024, month |-> 1, day |-> 25]

IsLeapYear(y) == (y % 4 = 0 /\ y % 100 # 0) \/ y % 400 = 0

DaysInMonth(y, m) ==
  IF m = 1 THEN (IF IsLeapYear(y) THEN 29 ELSE 28)
  ELSE IF m \in {3, 5, 8, 10} THEN 30 ELSE 31

\* the calendar date of day number n, looked for from the month (y, m) whose
\* first day is day number first
RECURSIVE DateInMonth(_, _, _, _)
DateInMonth(first, y, m, n) ==
  IF n < first
  THEN LET py == IF m = 0 THEN y - 1 ELSE y
           pm == IF m = 0 THEN 11 ELSE m - 1
       IN  DateInMonth(first - DaysInMonth(py, pm), py, pm, n)
  ELSE IF n >= first + DaysInMonth(y, m)
  THEN DateInMonth(first + DaysInMonth(y, m),
                   IF m = 11 THEN y + 1 ELSE y, IF m = 11 THEN 0 ELSE m + 1, n)
  ELSE [year |-> y, month |-> m, day |-> n - first + 1]

\* the calendar date of a day number
DateOfDay(n) ==
  DateInMonth(0 - (EpochDate.day - 1), EpochDate.year, EpochDate.month, n)

\* date.getMonth(), date.getFullYear(), date.getDay() in local time
getMonth(date, zone) == DateOfDay(toDateString(date, zone)).month
getFullYear(date, zone) == DateOfDay(toDateString(date, zone)).year
getDay(date, zone) == toDateString(date, zone) % 7

-----------------------------------------------------------------------------
(* Array.prototype.sort *)

\* a.localeCompare(b) on strings of digits: -1, 0 or 1
RECURSIVE localeCompare(_, _)
localeCompare(a, b) ==
  IF a = << >> /\ b = << >> THEN 0
  ELSE IF a = << >> THEN -1
  ELSE IF b = << >> THEN 1
  ELSE IF Head(a) < Head(b) THEN -1
  ELSE IF Head(a) > Head(b) THEN 1
  ELSE localeCompare(Tail(a), Tail(b))

\* const priorityOrder = { high: 0, medium: 1, low: 2 }
priorityOrder == [high |-> 0, medium |-> 1, low |-> 2]

\* DayView.dayEvents and WeekView.weekEvents: the sort callback
dayCompare(a, b) ==
  IF Truthy(Get(a, "startTime")) /\ Truthy(Get(b, "startTime"))
  THEN localeCompare(a.startTime, b.startTime)
  ELSE priorityOrder[a.priority] - priorityOrder[b.priority]

\* TaskList.filteredEvents: the sort callback
taskCompare(a, b) ==
  IF a.date - b.date # 0 THEN a.date - b.date
  ELSE priorityOrder[a.priority] - priorityOrder[b.priority]

\* BottomPanel.upcomingEvents: the sort callback
upcomingCompare(a, b) == a.date - b.date

Compare(kind, a, b) ==
  IF kind = "day" THEN dayCompare(a, b)
  ELSE IF kind = "task" THEN taskCompare(a, b)
  ELSE upcomingCompare(a, b)

\* The order sort() leaves is the stable sorted order when the callback is a
\* consistent comparator, and is up to the engine when it is not.  Two
\* engines are modelled: V8's TimSort, which for an array this short is one
\* run followed by binary insertion, and the insertion sort older V8 used
\* for short arrays.
Engines == {"timsort", "insertion"}

Reverse(seq) == [i \in 1..Len(seq) |-> seq[Len(seq) + 1 - i]]

InsertAt(seq, i, x) == SubSeq(seq, 1, i - 1) \o <<x>> \o SubSeq(seq, i, Len(seq))

\* TimSort CountAndMakeRun: the length of the run the array starts with;
\* a run goes down when its second element compares below its first
RECURSIVE RunEnd(_, _, _, _)
RunEnd(kind, a, descending, idx) ==
  IF idx > Len(a) THEN idx - 1
  ELSE LET order == Compare(kind, a[idx], a[idx - 1])
       IN  IF (descending /\ order >= 0) \/ (~descending /\ order < 0)
           THEN idx - 1
           ELSE RunEnd(kind, a, descending, idx + 1)

\* TimSort BinaryInsertionSort: where the pivot goes in the sorted prefix
RECURSIVE BinarySlot(_, _, _, _, _)
BinarySlot(kind, sorted, pivot, left, right) ==
  IF left >= right THEN left
  ELSE LET mid == left + ((right - left) \div 2)
       IN  IF Compare(kind, pivot, sorted[mid + 1]) < 0
           THEN BinarySlot(kind, sorted, pivot, left, mid)
           ELSE BinarySlot(kind, sorted, pivot, mid + 1, right)

RECURSIVE BinaryInsertionSort(_, _, _)
BinaryInsertionSort(kind, sorted, rest) ==
  IF rest = << >> THEN sorted
  ELSE BinaryInsertionSort(kind,
         InsertAt(sorted, BinarySlot(kind, sorted, Head(rest), 0, Len(sorted)) + 1,
                  Head(rest)),
         Tail(rest))

TimSort(kind, a) ==
  IF Len(a) < 2 THEN a
  ELSE LET descending == Compare(kind, a[2], a[1]) < 0
           run == RunEnd(kind, a, descending, 3)
           first == IF descending THEN Reverse(SubSeq(a, 1, run)) ELSE SubSeq(a, 1, run)
       IN  BinaryInsertionSort(kind, first, SubSeq(a, run + 1, Len(a)))

\* insertion sort: the element moves left past every element that compares
\* above it
RECURSIVE LinearSlot(_, _, _, _)
LinearSlot(kind, sorted, element, j) ==
  IF j >= 1 /\ Compare(kind, sorted[j], element) > 0
  THEN LinearSlot(kind, sorted, element, j - 1)
  ELSE j + 1

RECURSIVE InsertionSort(_, _, _)
InsertionSort(kind, sorted, rest) ==
  IF rest = << >> THEN sorted
  ELSE InsertionSort(kind,
         InsertAt(sorted, LinearSlot(kind, sorted, Head(rest), Len(sorted)), Head(rest)),
         Tail(rest))

\* array.sort(callback)
sort(kind, a, eng) ==
  IF eng = "timsort" THEN TimSort(kind, a) ELSE InsertionSort(kind, << >>, a)

-----------------------------------------------------------------------------
(* The lists the views compute *)

dayEventsAtInstant(evs, date, zone, eng) ==
  sort("day", SelectSeq(evs, LAMBDA event : event.date = date), eng)

\* DayView.dayEvents
dayEvents(evs, date, zone, eng) ==
  sort("day",
       SelectSeq(evs, LAMBDA event :
         toDateString(event.date, zone) = toDateString(date, zone)),
       eng)

weekEventsUnsorted(evs, dateKey, zone, eng) ==
  SelectSeq(evs, LAMBDA event : toDateString(event.date, zone) = dateKey)

\* WeekView.weekEvents[dateKey], dateKey the toDateString of a day of the week
weekEvents(evs, dateKey, zone, eng) ==
  sort("day",
       SelectSeq(evs, LAMBDA event : toDateString(event.date, zone) = dateKey),
       eng)

\* new Date(now.getFullYear(), now.getMonth(), now.getDate()): local midnight
startOfDay(date, zone) == toDateString(date, zone) * TicksPerDay - zone

FilterModes == {"day", "week", "month"}

\* TaskList.filteredEvents: the filter callback
inFilter(event, mode, clock, zone) ==
  LET today == startOfDay(clock, zone)
      weekStart == today - getDay(today, zone) * TicksPerDay
      weekEnd == weekStart + 6 * TicksPerDay
  IN  IF mode = "day"
      THEN toDateString(event.date, zone) = toDateString(today, zone)
      ELSE IF mode = "week"
      THEN event.date >= weekStart /\ event.date <= weekEnd
      ELSE /\ getMonth(event.date, zone) = getMonth(today, zone)
           /\ getFullYear(event.date, zone) = getFullYear(today, zone)

\* TaskList.filteredEvents
filteredEvents(evs, mode, clock, zone, eng) ==
  sort("task",
       SelectSeq(evs, LAMBDA event : inFilter(event, mode, clock, zone)),
       eng)

-----------------------------------------------------------------------------
(* The list views on any store content *)

\* the events a store can hold, up to what the lists look at
ListEventFields ==
  [title : {<<"a">>},
   date : {0, 1, TicksPerDay},
   startTime : {Undefined, TimeString(9), TimeString(10)},
   priority : Priorities,
   createdAt : {0}]

\* store contents: the i-th event added has id i
StoreContents(maxLen) ==
  UNION { { [i \in 1..n |-> Spread(f[i], [id |-> i])] : f \in [1..n -> ListEventFields] }
          : n \in 0..maxLen }

ListInit ==
  /\ events \in StoreContents(MaxLen)
  /\ engine \in Engines
  /\ issued = IdsOf(events)
  /\ now = 0
  /\ tz = 0
  /\ SidebarInit
  /\ lastOp = NoOp
  /\ selectedDate = 0
  /\ currentView = "day"
  /\ quickAddData = << >>
  /\ draggedEvent = << >>
  /\ draggedQuickEvent = << >>
  /\ dragging = NoDrag
  /\ shown = << >>

listFrame == <<events, issued, now, tz, sidebarVars, selectedDate, currentView, quickAddData, draggedEvent,
               draggedQuickEvent, dragging, engine>>

\* the day view renders its list for the selected date
RenderDayView ==
  /\ shown' = dayEvents(events, selectedDate, tz, engine)
  /\ lastOp' = [op |-> "dayView", id |-> 0, arg |-> NoFields]
  /\ UNCHANGED listFrame

\* the week view renders the column of one day of the week
RenderWeekColumn ==
  \E dateKey \in 0..6 :
    /\ shown' = weekEvents(events, dateKey, tz, engine)
    /\ lastOp' = [op |-> "weekColumn", id |-> 0, arg |-> [dateKey |-> dateKey]]
    /\ UNCHANGED listFrame

\* the task list renders its list under one of its filters
RenderTaskList ==
  \E mode \in FilterModes :
    /\ shown' = filteredEvents(events, mode, now, tz, engine)
    /\ lastOp' = [op |-> "taskList", id |-> 0, arg |-> [filterMode |-> mode]]
    /\ UNCHANGED listFrame

ListNext == RenderDayView \/ RenderWeekColumn \/ RenderTaskList

ListSpec == ListInit /\ [][ListNext]_vars

-----------------------------------------------------------------------------
(* The bottom panel: BottomPanel.tsx *)

MaxPanelLen == 2    \* longest store content the panel is rendered for

UpcomingLimit == 5  \* .slice(0, 5)

\* if (n) on an optional number: undefined and 0 are false
TruthyNumber(v) == v # << >> /\ v[1] # 0

\* BottomPanel.getReminderTime
getReminderTimeFlat(event) ==
  IF TruthyNumber(Get(event, "customReminderTime"))
  THEN event.customReminderTime[1]
  ELSE 30

getReminderTime(event) ==
  IF TruthyNumber(Get(event, "customReminderTime"))
  THEN event.customReminderTime[1]
  ELSE LET priority == IF "priority" \in DOMAIN event THEN event.priority
                       ELSE "undefined"
       IN  IF priority = "high" THEN 60
           ELSE IF priority = "medium" THEN 30
           ELSE IF priority = "low" THEN 10
           ELSE 30

\* BottomPanel.upcomingEvents
upcomingEvents(evs, clock, eng) ==
  LET sorted == sort("upcoming", SelectSeq(evs, LAMBDA event : event.date >= clock), eng)
  IN  SubSeq(sorted, 1, IF Len(sorted) < UpcomingLimit THEN Len(sorted) ELSE UpcomingLimit)

\* the events a store can hold, up to what the panel looks at: yesterday's,
\* today's (dated midnight) and tomorrow's for the list; for the reminder,
\* events of tomorrow with any priority the storage may hold or none, with
\* and without a reminder of their own
PanelEventFields ==
  [title : {<<"a">>},
   date : {0 - TicksPerDay, 0, TicksPerDay},
   priority : {"medium"},
   customReminderTime : {Undefined},
   createdAt : {0}]
  \cup
  [title : {<<"a">>},
   date : {TicksPerDay},
   priority : Priorities \cup {"urgent"},
   customReminderTime : {Undefined, <<0>>, <<5>>},
   createdAt : {0}]
  \cup
  [title : {<<"a">>},
   date : {0, TicksPerDay},
   customReminderTime : {Undefined, <<0>>},
   createdAt : {0}]

PanelContents(maxLen) ==
  UNION { { [i \in 1..n |-> Spread(f[i], [id |-> i])] : f \in [1..n -> PanelEventFields] }
          : n \in 0..maxLen }

PanelInit ==
  /\ events \in PanelContents(MaxPanelLen)
  /\ engine \in Engines
  /\ issued = IdsOf(events)
  /\ now = 0
  /\ tz = 0
  /\ SidebarInit
  /\ lastOp = NoOp
  /\ selectedDate = 0
  /\ currentView = "day"
  /\ quickAddData = << >>
  /\ draggedEvent = << >>
  /\ draggedQuickEvent = << >>
  /\ dragging = NoDrag
  /\ shown = << >>

\* the panel renders the notifications tab: the upcoming events, each with
\* "Remind {getReminderTime(event)}min before"
RenderNotifications ==
  LET upcoming == upcomingEvents(events, now, engine)
  IN  /\ shown' = upcoming
      /\ lastOp' = [op |-> "notifications", id |-> 0,
                    arg |-> [minutes |-> [i \in 1..Len(upcoming) |->
                                            getReminderTime(upcoming[i])]]]
      /\ UNCHANGED listFrame

\* time passes between two renders
PanelTick ==
  /\ now < MaxNow
  /\ now' = now + 1
  /\ lastOp' = [op |-> "tick", id |-> 0, arg |-> NoFields]
  /\ UNCHANGED <<events, issued, tz, sidebarVars, selectedDate, currentView, quickAddData,
                 draggedEvent, draggedQuickEvent, dragging, shown, engine>>

PanelNext == RenderNotifications \/ PanelTick

PanelSpec == PanelInit /\ [][PanelNext]_vars

-----------------------------------------------------------------------------
(* The task list over the days of a week *)

\* the events a store can hold, up to what the task list looks at: dated the
\* Saturday before the clock's week (noon), its Sunday (midnight), its
\* Saturday (midnight, and noon as the quick add dates an event made at noon)
\* and the Sunday after
TaskEventFields ==
  [title : {<<"a">>},
   date : {0 - 1, 0, 6 * TicksPerDay, 6 * TicksPerDay + 1, 7 * TicksPerDay},
   priority : {"high", "low"},
   createdAt : {0}]

TaskContents(maxLen) ==
  UNION { { [i \in 1..n |-> Spread(f[i], [id |-> i])] : f \in [1..n -> TaskEventFields] }
          : n \in 0..maxLen }

TaskInit ==
  /\ events \in TaskContents(MaxLen)
  /\ engine \in Engines
  /\ issued = IdsOf(events)
  /\ now = 0
  /\ tz = 0
  /\ SidebarInit
  /\ lastOp = NoOp
  /\ selectedDate = 0
  /\ currentView = "day"
  /\ quickAddData = << >>
  /\ draggedEvent = << >>
  /\ draggedQuickEvent = << >>
  /\ dragging = NoDrag
  /\ shown = << >>

TaskNext == RenderTaskList \/ PanelTick

TaskSpec == TaskInit /\ [][TaskNext]_vars

-----------------------------------------------------------------------------
(* Navigation: selectedDate and currentView *)

MaxDay == 40        \* selectedDate stays within this many days of day 0

\* the local time of day of a Date, in ticks
timeOfDay(date, zone) == (date + zone) % TicksPerDay

\* date.getDate()
getDate(date, zone) == DateOfDay(toDateString(date, zone)).day

\* date.setDate(d): day d of the month of date, counted on into the months
\* before and after when d is not a day of that month; the time of day stays
setDate(date, zone, d) ==
  LET dayNumber == toDateString(date, zone)
      first == dayNumber - (DateOfDay(dayNumber).day - 1)
  IN  (first + d - 1) * TicksPerDay + timeOfDay(date, zone) - zone

\* the day number of the first of the month that lies k months from the
\* month (y, m), whose first is the day number first
RECURSIVE MonthStart(_, _, _, _)
MonthStart(first, y, m, k) ==
  IF k = 0 THEN first
  ELSE IF k > 0
  THEN MonthStart(first + DaysInMonth(y, m),
                  IF m = 11 THEN y + 1 ELSE y, IF m = 11 THEN 0 ELSE m + 1, k - 1)
  ELSE LET py == IF m = 0 THEN y - 1 ELSE y
           pm == IF m = 0 THEN 11 ELSE m - 1
       IN  MonthStart(first - DaysInMonth(py, pm), py, pm, k + 1)

\* date.setMonth(month): the same day of the month in month `month` of the
\* year of date (month -1 is December before, 12 January after); a day that
\* month does not have is counted on into the month after it
setMonth(date, zone, month) ==
  LET dayNumber == toDateString(date, zone)
      c == DateOfDay(dayNumber)
      first == dayNumber - (c.day - 1)
      target == MonthStart(first, c.year, c.month, month - c.month)
  IN  (target + c.day - 1) * TicksPerDay + timeOfDay(date, zone) - zone

\* WeekView.weekDates: the seven dates of the week of selectedDate, Sunday first
weekDatesFromAnchor(date, zone) ==
  [i \in 1..7 |-> setDate(date, zone, getDate(date, zone) + (i - 1))]

weekDates(date, zone) ==
  LET startOfWeek == setDate(date, zone, getDate(date, zone) - getDay(date, zone))
  IN  [i \in 1..7 |-> setDate(startOfWeek, zone, getDate(startOfWeek, zone) + (i - 1))]

\* MonthView.calendarDates: the 42 dates of the grid, from the Sunday of the
\* week of the first of the month, each at local midnight
calendarDatesFromFirst(date, zone) ==
  LET dayNumber == toDateString(date, zone)
      firstDay == (dayNumber - (DateOfDay(dayNumber).day - 1)) * TicksPerDay - zone
  IN  [i \in 1..42 |-> setDate(firstDay, zone, getDate(firstDay, zone) + (i - 1))]

calendarDates(date, zone) ==
  LET dayNumber == toDateString(date, zone)
      firstDay == (dayNumber - (DateOfDay(dayNumber).day - 1)) * TicksPerDay - zone
      startDate == setDate(firstDay, zone, getDate(firstDay, zone) - getDay(firstDay, zone))
  IN  [i \in 1..42 |-> setDate(startDate, zone, getDate(startDate, zone) + (i - 1))]

Views == {"day", "week", "month"}

Directions == {"prev", "next"}

InRange(date, zone) ==
  /\ toDateString(date, zone) >= 0 - MaxDay
  /\ toDateString(date, zone) <= MaxDay

NavInit ==
  /\ events = addEvent(<< >>, eventData([title |-> <<"a">>, description |-> << >>,
                 date |-> 0, startTime |-> TimeString(9), endTime |-> << >>,
                 priority |-> "medium", customReminderTime |-> << >>], 0), 1, 0)
  /\ issued = {1}
  /\ now = 0
  /\ tz = 0
  /\ SidebarInit
  /\ lastOp = NoOp
  /\ selectedDate = 0
  /\ currentView = "day"
  /\ quickAddData = << >>
  /\ draggedEvent = << >>
  /\ draggedQuickEvent = << >>
  /\ dragging = NoDrag
  /\ shown = << >>
  /\ engine = "timsort"

navFrame == <<events, issued, now, tz, sidebarVars, quickAddData, draggedEvent,
              draggedQuickEvent, dragging, shown, engine>>

\* what a navigation handler was called with: its direction and the
\* selectedDate and currentView it was rendered with
NavArg(direction) ==
  [direction |-> direction, selectedDate |-> selectedDate, currentView |-> currentView]

\* DayView.navigateDate (the arrows of the day view)
navigateDate ==
  \E direction \in Directions :
    LET newDate == setDate(selectedDate, tz,
                     getDate(selectedDate, tz) + (IF direction = "next" THEN 1 ELSE -1))
    IN  /\ currentView = "day"
        /\ InRange(newDate, tz)
        /\ selectedDate' = newDate
        /\ lastOp' = [op |-> "navigate", id |-> 0, arg |-> NavArg(direction)]
        /\ UNCHANGED <<currentView, navFrame>>

\* WeekView.navigateWeek (the arrows of the week view)
navigateWeek ==
  \E direction \in Directions :
    LET newDate == setDate(selectedDate, tz,
                     getDate(selectedDate, tz) + (IF direction = "next" THEN 7 ELSE -7))
    IN  /\ currentView = "week"
        /\ InRange(newDate, tz)
        /\ selectedDate' = newDate
        /\ lastOp' = [op |-> "navigate", id |-> 0, arg |-> NavArg(direction)]
        /\ UNCHANGED <<currentView, navFrame>>

\* MonthView.navigateMonth (the arrows of the month view)
navigateMonth ==
  \E direction \in Directions :
    LET newDate == setMonth(selectedDate, tz,
                     getMonth(selectedDate, tz) + (IF direction = "next" THEN 1 ELSE -1))
    IN  /\ currentView = "month"
        /\ InRange(newDate, tz)
        /\ selectedDate' = newDate
        /\ lastOp' = [op |-> "navigate", id |-> 0, arg |-> NavArg(direction)]
        /\ UNCHANGED <<currentView, navFrame>>

\* the Today button of the day, week and month view: onSelectDate(new Date())
jumpToToday ==
  /\ selectedDate' = now
  /\ lastOp' = [op |-> "today", id |-> 0, arg |-> NavArg("none")]
  /\ UNCHANGED <<currentView, navFrame>>

\* onViewChange(view) that also goes back to today
onViewChangeToday ==
  \E view \in Views :
    /\ currentView' = view
    /\ selectedDate' = now
    /\ lastOp' = [op |-> "setMode", id |-> 0,
                  arg |-> [view |-> view, selectedDate |-> selectedDate,
                           currentView |-> currentView]]
    /\ UNCHANGED navFrame

\* MainContent view buttons: onViewChange(view).  The day view is mounted only
\* while currentView is 'day': leaving it drops its state, and the next day
\* view starts from useState's initial values.
onViewChange ==
  \E view \in Views :
    LET unmounts == currentView = "day" /\ view # "day"
    IN  /\ currentView' = view
        /\ quickAddData' = IF unmounts THEN << >> ELSE quickAddData
        /\ draggedEvent' = IF unmounts THEN << >> ELSE draggedEvent
        /\ draggedQuickEvent' = IF unmounts THEN << >> ELSE draggedQuickEvent
        /\ lastOp' = [op |-> "setMode", id |-> 0,
                      arg |-> [view |-> view, selectedDate |-> selectedDate,
                               currentView |-> currentView]]
        /\ UNCHANGED <<events, issued, now, tz, sidebarVars, selectedDate, dragging, shown, engine>>

\* WeekView.handleDayDoubleClick(date): a day column of the week view is
\* double-clicked (or an event in it is clicked)
handleDayDoubleClick ==
  \E i \in 1..7 :
    LET date == weekDates(selectedDate, tz)[i]
    IN  /\ currentView = "week"
        /\ InRange(date, tz)
        /\ selectedDate' = date
        /\ lastOp' = [op |-> "doubleClick", id |-> 0,
                      arg |-> [date |-> date, selectedDate |-> selectedDate,
                               currentView |-> currentView]]
        /\ UNCHANGED <<currentView, navFrame>>

\* MonthView.handleDateDoubleClick(date): a cell of the month grid is
\* double-clicked; onSwitchToDayView is MainContent.handleDayViewSwitch
handleDateDoubleClick ==
  \E i \in 1..42 :
    LET date == calendarDates(selectedDate, tz)[i]
    IN  /\ currentView = "month"
        /\ InRange(date, tz)
        /\ selectedDate' = date
        /\ currentView' = "day"
        /\ lastOp' = [op |-> "doubleClick", id |-> 0,
                      arg |-> [date |-> date, selectedDate |-> selectedDate,
                               currentView |-> currentView]]
        /\ UNCHANGED navFrame

\* time passes
NavTick ==
  /\ now < MaxNow
  /\ now' = now + 1
  /\ lastOp' = [op |-> "tick", id |-> 0, arg |-> NoFields]
  /\ UNCHANGED <<events, issued, tz, sidebarVars, selectedDate, currentView, quickAddData,
                 draggedEvent, draggedQuickEvent, dragging, shown, engine>>

ClockTickToday ==
  /\ currentTime' = now
  /\ selectedDate' = now
  /\ lastOp' = [op |-> "clockTick", id |-> 0, arg |-> NoFields]
  /\ UNCHANGED <<events, issued, now, tz, filterMode, deleteMode, selectedEvents,
                 currentView, quickAddData, draggedEvent, draggedQuickEvent,
                 dragging, shown, engine>>

\* Sidebar: the callback of setInterval(..., 1000): setCurrentTime(new Date())
ClockTick ==
  /\ currentTime' = now
  /\ lastOp' = [op |-> "clockTick", id |-> 0, arg |-> NoFields]
  /\ UNCHANGED <<events, issued, now, tz, filterMode, deleteMode, selectedEvents,
                 selectedDate, currentView, quickAddData, draggedEvent,
                 draggedQuickEvent, dragging, shown, engine>>

NavNext ==
  \/ ClockTick
  \/ navigateDate
  \/ navigateWeek
  \/ navigateMonth
  \/ jumpToToday
  \/ onViewChange
  \/ handleDayDoubleClick
  \/ handleDateDoubleClick
  \/ NavTick

NavSpec == NavInit /\ [][NavNext]_vars

-----------------------------------------------------------------------------
(* The week window and the month grid for any selectedDate *)

MaxAnchor == 400    \* selectedDate is drawn from this many days around day 0

\* MonthView.calendarDates: the cells of the grid with their flags
calendarCells(date, clock, zone) ==
  LET dates == calendarDates(date, zone)
      month == getMonth(date, zone)
  IN  [i \in 1..Len(dates) |->
         [date |-> dates[i],
          isCurrentMonth |-> getMonth(dates[i], zone) = month,
          isToday |-> toDateString(dates[i], zone) = toDateString(clock, zone),
          isPast |-> dates[i] < startOfDay(clock, zone)]]

CalInit ==
  /\ selectedDate \in { day * TicksPerDay + t :
                          day \in (0 - MaxAnchor)..MaxAnchor, t \in 0..(TicksPerDay - 1) }
  /\ currentView \in {"week", "month"}
  /\ events = << >>
  /\ issued = {}
  /\ now = 0
  /\ tz = 0
  /\ SidebarInit
  /\ lastOp = NoOp
  /\ quickAddData = << >>
  /\ draggedEvent = << >>
  /\ draggedQuickEvent = << >>
  /\ dragging = NoDrag
  /\ shown = << >>
  /\ engine = "timsort"

\* the week view renders its seven columns
RenderWeekView ==
  /\ currentView = "week"
  /\ shown' = weekDates(selectedDate, tz)
  /\ lastOp' = [op |-> "weekView", id |-> 0, arg |-> NoFields]
  /\ UNCHANGED listFrame

\* the month view renders its grid
RenderMonthView ==
  /\ currentView = "month"
  /\ shown' = calendarCells(selectedDate, now, tz)
  /\ lastOp' = [op |-> "monthView", id |-> 0, arg |-> NoFields]
  /\ UNCHANGED listFrame

CalNext == RenderWeekView \/ RenderMonthView

CalSpec == CalInit /\ [][CalNext]_vars

-----------------------------------------------------------------------------
(* What the day, week and month views and the task list show of a store *)

PreviewLimit == 2   \* dayEvents.slice(0, 2)

\* DayView.timeSlots: the 24 slots, each with the events of dayEvents whose
\* startTime has its hour
timeSlots(dayEvs) ==
  [h \in 1..24 |->
     [hour |-> h - 1,
      timeString |-> TimeString(h - 1),
      events |-> SelectSeq(dayEvs, LAMBDA event :
                   /\ Truthy(Get(event, "startTime"))
                   /\ eventHour(event.startTime) = h - 1)]]

\* WeekView.weekEvents: eventsByDay, a list under the date key of each of
\* the week's dates (a date key is the calendar day)
weekEventsByDay(evs, date, zone, eng) ==
  LET dates == weekDates(date, zone)
  IN  [dateKey \in {toDateString(dates[i], zone) : i \in 1..Len(dates)} |->
         weekEvents(evs, dateKey, zone, eng)]

\* MonthView.eventsByDay: eventsMap, the stored events of each date of the grid
eventsByDay(evs, date, zone) ==
  LET dates == calendarDates(date, zone)
  IN  [dateKey \in {toDateString(dates[i], zone) : i \in 1..Len(dates)} |->
         SelectSeq(evs, LAMBDA event : toDateString(event.date, zone) = dateKey)]

cellPreviewLast(dayEvs) ==
  [count |-> Len(dayEvs),
   preview |-> SubSeq(dayEvs, IF Len(dayEvs) < PreviewLimit THEN 1
                              ELSE Len(dayEvs) - PreviewLimit + 1, Len(dayEvs)),
   more |-> IF Len(dayEvs) >= PreviewLimit THEN <<Len(dayEvs) - PreviewLimit>> ELSE << >>]

\* MonthView cell: the count badge, the events previewed and "+N more"
\* (<< >> when it is not rendered)
cellPreview(dayEvs) ==
  [count |-> Len(dayEvs),
   preview |-> SubSeq(dayEvs, 1, IF Len(dayEvs) < PreviewLimit THEN Len(dayEvs)
                                 ELSE PreviewLimit),
   more |-> IF Len(dayEvs) > PreviewLimit THEN <<Len(dayEvs) - PreviewLimit>> ELSE << >>]

\* TaskList.groupedEvents: the groups in the order their keys were first
\* set (the keys are date strings, which an object keeps in insertion order)
RECURSIVE GroupInto(_, _, _)
GroupInto(groups, list, zone) ==
  IF list = << >> THEN groups
  ELSE LET event == Head(list)
           dateKey == toDateString(event.date, zone)
       IN  IF \E i \in 1..Len(groups) : groups[i].dateKey = dateKey
           THEN GroupInto([i \in 1..Len(groups) |->
                             IF groups[i].dateKey = dateKey
                             THEN [groups[i] EXCEPT !.events = Append(@, event)]
                             ELSE groups[i]],
                          Tail(list), zone)
           ELSE GroupInto(Append(groups, [dateKey |-> dateKey, events |-> <<event>>]),
                          Tail(list), zone)

groupedEventsReversed(list, zone) ==
  GroupInto(<< >>, [i \in 1..Len(list) |-> list[Len(list) + 1 - i]], zone)

groupedEvents(list, zone) == GroupInto(<< >>, list, zone)

\* the events a store can hold, up to what these views look at
ViewEventFields ==
  [title : {<<"a">>},
   date : {0, 1, TicksPerDay, 7 * TicksPerDay},
   startTime : {TimeString(9)},
   priority : {"high"},
   createdAt : {0}]
  \cup
  [title : {<<"a">>},
   date : {0},
   startTime : {Undefined, TimeString(10)},
   priority : {"high"},
   createdAt : {0}]

ViewContents(maxLen) ==
  UNION { { [i \in 1..n |-> Spread(f[i], [id |-> i])] : f \in [1..n -> ViewEventFields] }
          : n \in 0..maxLen }

ShowInit ==
  /\ events \in ViewContents(MaxLen)
  /\ engine \in Engines
  /\ selectedDate \in {0, 1, TicksPerDay}
  /\ issued = IdsOf(events)
  /\ now = 0
  /\ tz = 0
  /\ SidebarInit
  /\ lastOp = NoOp
  /\ currentView = "day"
  /\ quickAddData = << >>
  /\ draggedEvent = << >>
  /\ draggedQuickEvent = << >>
  /\ dragging = NoDrag
  /\ shown = << >>

\* the day view renders its timeline for the selected date
RenderTimeline ==
  /\ shown' = timeSlots(dayEvents(events, selectedDate, tz, engine))
  /\ lastOp' = [op |-> "timeSlots", id |-> 0, arg |-> NoFields]
  /\ UNCHANGED listFrame

\* the week view renders the lists of its seven days
RenderWeekEvents ==
  /\ shown' = weekEventsByDay(events, selectedDate, tz, engine)
  /\ lastOp' = [op |-> "weekEvents", id |-> 0, arg |-> NoFields]
  /\ UNCHANGED listFrame

\* the month view renders the events of its cells
RenderMonthEvents ==
  /\ shown' = LET eventsMap == eventsByDay(events, selectedDate, tz)
              IN  [dateKey \in DOMAIN eventsMap |-> cellPreview(eventsMap[dateKey])]
  /\ lastOp' = [op |-> "monthEvents", id |-> 0, arg |-> NoFields]
  /\ UNCHANGED listFrame

\* the task list renders its groups under one of its filters
RenderTaskGroups ==
  \E mode \in FilterModes :
    /\ shown' = groupedEvents(filteredEvents(events, mode, now, tz, engine), tz)
    /\ lastOp' = [op |-> "taskGroups", id |-> 0, arg |-> [filterMode |-> mode]]
    /\ UNCHANGED listFrame

ShowNext ==
  \/ RenderDayView
  \/ RenderTimeline
  \/ RenderWeekEvents
  \/ RenderMonthEvents
  \/ RenderTaskGroups

ShowSpec == ShowInit /\ [][ShowNext]_vars

-----------------------------------------------------------------------------
(* The task list's delete mode: TaskList.tsx *)

\* a Set as the sequence of its elements in insertion order
SetAdd(set, x) == IF \E i \in 1..Len(set) : set[i] = x THEN set ELSE Append(set, x)

SetDelete(set, x) == SelectSeq(set, LAMBDA y : y # x)

SetElements(set) == {set[i] : i \in 1..Len(set)}

\* the collection the setter of hooks/useLocalStorage passes to an updater
\* when a handler has called it before: the store's operations run to
\* completion one after the other, so it is the collection the previous call
\* left (pending), not the one the handler was rendered with
prevEvents(rendered, pending) == pending

\* selectedEvents.forEach(eventId => onDeleteEvent(eventId))
RECURSIVE forEachDelete(_, _, _)
forEachDelete(rendered, pending, ids) ==
  IF ids = << >> THEN pending
  ELSE forEachDelete(rendered,
                     deleteEvent(prevEvents(rendered, pending), Head(ids)),
                     Tail(ids))

\* the ids of the events the task list renders
displayedIds == IdsOf(filteredEvents(events, filterMode, now, tz, engine))

SelectEventFields ==
  [title : {<<"a">>},
   date : {0, TicksPerDay, 5 * TicksPerDay},
   startTime : {TimeString(9)},
   priority : {"medium"},
   createdAt : {0}]

SelectContents(maxLen) ==
  UNION { { [i \in 1..n |-> Spread(f[i], [id |-> i])] : f \in [1..n -> SelectEventFields] }
          : n \in 0..maxLen }

SelectInit ==
  /\ events \in SelectContents(MaxLen)
  /\ issued = IdsOf(events)
  /\ now = 0
  /\ tz = 0
  /\ SidebarInit
  /\ lastOp = NoOp
  /\ selectedDate = 0
  /\ currentView = "day"
  /\ quickAddData = << >>
  /\ draggedEvent = << >>
  /\ draggedQuickEvent = << >>
  /\ dragging = NoDrag
  /\ shown = << >>
  /\ engine = "timsort"

selectFrame == <<issued, now, tz, currentTime, selectedDate, currentView, quickAddData,
                 draggedEvent, draggedQuickEvent, dragging, shown, engine>>

\* what a task list handler was called with
TaskArg == [events |-> events, filterMode |-> filterMode, deleteMode |-> deleteMode,
            selectedEvents |-> selectedEvents]

\* filter buttons: setFilterMode(mode)
setFilterMode ==
  \E mode \in FilterModes :
    /\ filterMode' = mode
    /\ lastOp' = [op |-> "setFilterMode", id |-> 0, arg |-> Spread(TaskArg, [mode |-> mode])]
    /\ UNCHANGED <<events, deleteMode, selectedEvents, selectFrame>>

\* Delete / Cancel button: setDeleteMode(!deleteMode); setSelectedEvents(new Set())
toggleDeleteMode ==
  /\ deleteMode' = ~deleteMode
  /\ selectedEvents' = << >>
  /\ lastOp' = [op |-> "toggleDeleteMode", id |-> 0, arg |-> TaskArg]
  /\ UNCHANGED <<events, filterMode, selectFrame>>

\* the checkbox of a displayed event, rendered in delete mode only
handleEventSelection ==
  /\ deleteMode
  /\ \E eventId \in displayedIds, checked \in BOOLEAN :
       /\ selectedEvents' = IF checked THEN SetAdd(selectedEvents, eventId)
                             ELSE SetDelete(selectedEvents, eventId)
       /\ lastOp' = [op |-> "select", id |-> eventId,
                     arg |-> Spread(TaskArg, [checked |-> checked])]
  /\ UNCHANGED <<events, filterMode, deleteMode, selectFrame>>

handleBatchDeleteKeepMode ==
  /\ deleteMode
  /\ selectedEvents # << >>
  /\ \E confirmed \in BOOLEAN :
       /\ IF confirmed
          THEN /\ events' = forEachDelete(events, events, selectedEvents)
               /\ selectedEvents' = << >>
               /\ UNCHANGED deleteMode
          ELSE UNCHANGED <<events, selectedEvents, deleteMode>>
       /\ lastOp' = [op |-> "batchDelete", id |-> 0,
                     arg |-> Spread(TaskArg, [confirmed |-> confirmed])]
  /\ UNCHANGED <<filterMode, selectFrame>>

\* "Delete Selected", rendered when deleteMode && selectedEvents.size > 0
handleBatchDelete ==
  /\ deleteMode
  /\ selectedEvents # << >>
  /\ \E confirmed \in BOOLEAN :
       /\ IF confirmed
          THEN /\ events' = forEachDelete(events, events, selectedEvents)
               /\ selectedEvents' = << >>
               /\ deleteMode' = FALSE
          ELSE UNCHANGED <<events, selectedEvents, deleteMode>>
       /\ lastOp' = [op |-> "batchDelete", id |-> 0,
                     arg |-> Spread(TaskArg, [confirmed |-> confirmed])]
  /\ UNCHANGED <<filterMode, selectFrame>>

\* the trash button of a displayed event, rendered outside delete mode only
DeleteFromTaskList ==
  /\ ~deleteMode
  /\ \E eventId \in displayedIds :
       /\ events' = deleteEvent(events, eventId)
       /\ lastOp' = [op |-> "delete", id |-> eventId, arg |-> TaskArg]
  /\ UNCHANGED <<filterMode, deleteMode, selectedEvents, selectFrame>>

\* Sidebar: leaving the 'task-list' view unmounts the task list; the next one
\* starts from useState's initial values
RemountTaskList ==
  /\ filterMode' = "day"
  /\ deleteMode' = FALSE
  /\ selectedEvents' = << >>
  /\ lastOp' = [op |-> "remount", id |-> 0, arg |-> TaskArg]
  /\ UNCHANGED <<events, selectFrame>>

SelectNext ==
  \/ setFilterMode
  \/ toggleDeleteMode
  \/ handleEventSelection
  \/ handleBatchDelete
  \/ DeleteFromTaskList
  \/ DeleteFromTimeline
  \/ RemountTaskList

SelectSpec == SelectInit /\ [][SelectNext]_vars

-----------------------------------------------------------------------------
(* Claims about the store *)

\* position of the event with this id (the store never holds an id twice)
IndexOf(evs, id) == CHOOSE i \in 1..Len(evs) : evs[i].id = id

\* C2: add(e) leaves every stored event as it was and where it was, and puts
\* exactly one new event after them: it carries the caller's fields, an id no
\* stored event has, and the store's clock as createdAt.
C2_AddAppendsOne ==
  [][lastOp'.op = "add" =>
       /\ Len(events') = Len(events) + 1
       /\ SubSeq(events', 1, Len(events)) = events
       /\ LET new == events'[Len(events')]
              given == lastOp'.arg
          IN  /\ DOMAIN new = DOMAIN given \cup {"id", "createdAt"}
              /\ \A k \in DOMAIN given \ {"createdAt"} : new[k] = given[k]
              /\ new.id = lastOp'.id
              /\ new.id \notin IdsOf(events)
              /\ new.createdAt = now]_vars

\* an add into a non-empty store, at a time other than the caller's stamp
C2_Witness ==
  /\ lastOp.op = "add"
  /\ Len(events) >= 2
  /\ events[Len(events)].id = lastOp.id
  /\ events[Len(events)].createdAt # lastOp.arg.createdAt

\* C3: after update(id, partialFields) on a stored id, the matching event's
\* updatedAt is the current time.
C3_UpdateStampsUpdatedAt ==
  lastOp.op = "update" =>
    \A i \in 1..Len(events) :
      events[i].id = lastOp.id => Get(events[i], "updatedAt") = <<now>>

\* C4: update(id, partialFields) on a stored id replaces exactly the fields
\* provided, keeps every other field of that event (createdAt included), keeps
\* the event at its position and leaves every other event as it was.
C4_UpdateMergesInPlace ==
  [][lastOp'.op = "update" /\ lastOp'.id \in IdsOf(events) =>
       /\ Len(events') = Len(events)
       /\ \A i \in 1..Len(events) :
            IF events[i].id = lastOp'.id
            THEN /\ DOMAIN events'[i] = DOMAIN events[i] \cup DOMAIN lastOp'.arg
                 /\ \A k \in DOMAIN lastOp'.arg : events'[i][k] = lastOp'.arg[k]
                 /\ \A k \in DOMAIN events[i] \ DOMAIN lastOp'.arg :
                      events'[i][k] = events[i][k]
            ELSE events'[i] = events[i]]_vars

\* an update that hit the second of two events and changed it
C4_Witness ==
  /\ lastOp.op = "update"
  /\ Len(events) = 2
  /\ events[2].id = lastOp.id
  /\ events[1].title # events[2].title
  /\ \A k \in DOMAIN lastOp.arg : events[2][k] = lastOp.arg[k]
  /\ events[2].createdAt = 1

\* C5: update or delete with an id no stored event has leaves the collection
\* as it was: same events, same fields, same order.
C5_UnknownIdIsNoOp ==
  [][lastOp'.op \in {"update", "delete"} /\ lastOp'.id \notin IdsOf(events) =>
       events' = events]_vars

\* an update or a delete of an id that was never issued, on a non-empty store
C5_Witness ==
  /\ lastOp.op \in {"update", "delete"}
  /\ lastOp.id \notin issued
  /\ Len(events) = 2

-----------------------------------------------------------------------------
(* Claims about the entry points *)

IdSeq(evs) == [i \in 1..Len(evs) |-> evs[i].id]

RemoveAt(seq, i) == SubSeq(seq, 1, i - 1) \o SubSeq(seq, i + 1, Len(seq))

\* C1: whatever the user does, no two stored events share an id, and the id
\* of an event that stays in the store never changes: a step leaves the ids
\* where they are, or puts one unused id after them, or takes one id out.
C1_IdsUniqueAndStable ==
  /\ [](\A i, j \in 1..Len(events) : events[i].id = events[j].id => i = j)
  /\ [][\/ IdSeq(events') = IdSeq(events)
        \/ \E id \in Ids \ issued : IdSeq(events') = Append(IdSeq(events), id)
        \/ \E i \in 1..Len(events) : IdSeq(events') = RemoveAt(IdSeq(events), i)]_vars

\* two events are stored after an add, a delete, another add, and a drop that
\* moved one of them
C1_Witness ==
  /\ Len(events) = 2
  /\ Cardinality(issued) = 3
  /\ lastOp.op = "drop"
  /\ lastOp.id \in IdsOf(events)
  /\ draggedEvent = << >>

\* C7: an add attempt whose title is empty or only spaces is rejected and the
\* store stays as it was, from the add form and from the quick add, so no
\* stored event ever has an empty (or blank) title.
C7_BlankTitleRejected ==
  /\ [](\A i \in 1..Len(events) : Trim(events[i].title) # << >>)
  /\ [](draggedQuickEvent # << >> => Trim(draggedQuickEvent[1].title) # << >>)
  /\ [][lastOp'.op \in {"submit", "createQuick"} /\ Trim(lastOp'.arg.title) = << >> =>
          /\ events' = events
          /\ draggedQuickEvent' = draggedQuickEvent]_vars

\* both entry points have refused a blank title and have stored a real one
C7_Witness ==
  /\ Len(events) = 2
  /\ \E i, j \in 1..Len(events) :
       /\ "endTime" \in DOMAIN events[i]
       /\ "endTime" \notin DOMAIN events[j]
  /\ lastOp.op \in {"submit", "createQuick"}
  /\ Trim(lastOp.arg.title) = << >>
  /\ lastOp.arg.title # << >>

-----------------------------------------------------------------------------
(* Claims about the sorted lists *)

\* C8: in the list the day view or a week column shows, of two events that
\* both have a startTime the one with the smaller startTime comes first,
\* whatever else is in the list and whatever the store order was.
C8_TimedEventsInTimeOrder ==
  lastOp.op \in {"dayView", "weekColumn"} =>
    \A i, j \in 1..Len(shown) :
      (/\ i < j
       /\ Truthy(shown[i].startTime)
       /\ Truthy(shown[j].startTime))
      => localeCompare(shown[i].startTime, shown[j].startTime) <= 0

\* C9: the order the day's events are sorted by is transitive: for stored
\* events a, b, c, if a sorts at or before b and b at or before c, then a
\* sorts at or before c.
C9_ComparatorTransitive ==
  \A i, j, k \in 1..Len(events) :
    (dayCompare(events[i], events[j]) <= 0 /\ dayCompare(events[j], events[k]) <= 0)
    => dayCompare(events[i], events[k]) <= 0

\* the key a list is sorted by first: the startTime in the day view and the
\* week columns, the calendar date in the task list
SamePrimaryKey(a, b) ==
  IF lastOp.op = "taskList"
  THEN toDateString(a.date, tz) = toDateString(b.date, tz)
  ELSE a.startTime = b.startTime

\* C10: in every sorted list, of two events equal on the primary key the one
\* of higher priority comes first (high, medium, low), and two events equal
\* on the key and the priority keep the order they were added in.
C10_TiesByPriorityThenInsertion ==
  lastOp.op \in {"dayView", "weekColumn", "taskList"} =>
    \A i, j \in 1..Len(shown) :
      (i < j /\ SamePrimaryKey(shown[i], shown[j])) =>
        /\ priorityOrder[shown[i].priority] <= priorityOrder[shown[j].priority]
        /\ shown[i].priority = shown[j].priority => shown[i].id < shown[j].id

-----------------------------------------------------------------------------
(* Claims about the bottom panel *)

\* C11: the reminder time shown for an event that has a customReminderTime
\* which is not negative is that customReminderTime, 0 included, whatever the
\* event's priority.
C11_CustomReminderWins ==
  lastOp.op = "notifications" =>
    \A i \in 1..Len(shown) :
      LET custom == Get(shown[i], "customReminderTime")
      IN  (custom # << >> /\ custom[1] >= 0) => lastOp.arg.minutes[i] = custom[1]

\* the reminder time an event's priority alone gives
PriorityDefault(event) ==
  IF "priority" \notin DOMAIN event THEN 30
  ELSE CASE event.priority = "high" -> 60
         [] event.priority = "medium" -> 30
         [] event.priority = "low" -> 10
         [] OTHER -> 30

\* C12: the reminder time shown for an event without customReminderTime is 60
\* for priority high, 30 for medium, 10 for low and 30 for any other priority
\* or none; two events with the same customReminderTime and the same priority
\* are shown the same reminder time, whatever else differs.
C12_PriorityDefaults ==
  lastOp.op = "notifications" =>
    /\ \A i \in 1..Len(shown) :
         Get(shown[i], "customReminderTime") = << >> =>
           lastOp.arg.minutes[i] = PriorityDefault(shown[i])
    /\ \A i, j \in 1..Len(shown) :
         (/\ Get(shown[i], "customReminderTime") = Get(shown[j], "customReminderTime")
          /\ ("priority" \in DOMAIN shown[i]) = ("priority" \in DOMAIN shown[j])
          /\ ("priority" \in DOMAIN shown[i] => shown[i].priority = shown[j].priority))
         => lastOp.arg.minutes[i] = lastOp.arg.minutes[j]

\* the panel shows a high event and an event with no priority at all, neither
\* with a reminder of its own, on different days
C12_Witness ==
  /\ lastOp.op = "notifications"
  /\ Len(shown) = 2
  /\ shown[1].date # shown[2].date
  /\ \A i \in 1..2 : Get(shown[i], "customReminderTime") = << >>
  /\ \E i, j \in 1..2 :
       /\ "priority" \in DOMAIN shown[i] /\ shown[i].priority = "high"
       /\ "priority" \notin DOMAIN shown[j]
       /\ lastOp.arg.minutes[i] = 60 /\ lastOp.arg.minutes[j] = 30

\* C13: the upcoming list holds exactly the stored events whose calendar day
\* is the clock's calendar day or a later one, whatever the time of day of
\* the event's date and of the clock (no more than the limit are stored).
C13_UpcomingByCalendarDay ==
  lastOp.op = "notifications" =>
    \A i \in 1..Len(events) :
      (\E j \in 1..Len(shown) : shown[j].id = events[i].id)
      <=> toDateString(events[i].date, tz) >= toDateString(now, tz)

-----------------------------------------------------------------------------
(* Claims about the task list *)

\* the calendar day of the Sunday that starts the week of a date
WeekSunday(date, zone) == toDateString(date, zone) - getDay(date, zone)

\* C14: under the week filter the task list holds exactly the stored events
\* whose calendar day is one of the seven days, Sunday to Saturday, of the
\* clock's week, whatever the time of day of the event's date.
C14_WeekFilterInclusive ==
  (lastOp.op = "taskList" /\ lastOp.arg.filterMode = "week") =>
    \A i \in 1..Len(events) :
      (\E j \in 1..Len(shown) : shown[j].id = events[i].id)
      <=> (/\ toDateString(events[i].date, tz) >= WeekSunday(now, tz)
           /\ toDateString(events[i].date, tz) <= WeekSunday(now, tz) + 6)

\* C15: the task list is in calendar date order, and of two listed events of
\* the same calendar day the one of higher priority comes first, whatever
\* the time of day of their dates.
C15_TaskListByDayThenPriority ==
  lastOp.op = "taskList" =>
    \A i, j \in 1..Len(shown) :
      i < j =>
        /\ toDateString(shown[i].date, tz) <= toDateString(shown[j].date, tz)
        /\ toDateString(shown[i].date, tz) = toDateString(shown[j].date, tz)
             => priorityOrder[shown[i].priority] <= priorityOrder[shown[j].priority]

-----------------------------------------------------------------------------
(* Claims about navigation *)

\* C16: after a day cell of the week view or of the month view is
\* double-clicked, selectedDate is that cell's date and the view is the day
\* view, whatever selectedDate and view were before.
C16_DoubleClickOpensDay ==
  lastOp.op = "doubleClick" =>
    /\ selectedDate = lastOp.arg.date
    /\ currentView = "day"

\* months counted from year 0
MonthIndex(date, zone) == getFullYear(date, zone) * 12 + getMonth(date, zone)

Sign(direction) == IF direction = "next" THEN 1 ELSE -1

\* C18: an arrow of a view moves selectedDate in the direction asked, by
\* exactly one day in the day view, exactly seven days in the week view and
\* exactly one calendar month in the month view, and leaves the view as it is.
C18_NavigateDelta ==
  lastOp.op = "navigate" =>
    LET from == lastOp.arg.selectedDate
        sign == Sign(lastOp.arg.direction)
    IN  /\ currentView = lastOp.arg.currentView
        /\ currentView = "day" => selectedDate = from + sign * TicksPerDay
        /\ currentView = "week" => selectedDate = from + sign * 7 * TicksPerDay
        /\ currentView = "month" =>
             MonthIndex(selectedDate, tz) = MonthIndex(from, tz) + sign

\* the date k months from date: the same day of the month when the target
\* month has it, the target month's last day otherwise
ShiftMonthClamped(date, zone, k) ==
  LET dayNumber == toDateString(date, zone)
      c == DateOfDay(dayNumber)
      first == dayNumber - (c.day - 1)
      target == MonthStart(first, c.year, c.month, k)
      last == DateOfDay(MonthStart(first, c.year, c.month, k + 1) - 1).day
      day == IF c.day > last THEN last ELSE c.day
  IN  (target + day - 1) * TicksPerDay + timeOfDay(date, zone) - zone

\* C19: an arrow of the month view lands in the month right before or right
\* after the month of selectedDate, on the same day of the month when that
\* month has it and on its last day otherwise.
C19_MonthShiftClamps ==
  (lastOp.op = "navigate" /\ lastOp.arg.currentView = "month") =>
    selectedDate = ShiftMonthClamped(lastOp.arg.selectedDate, tz,
                                     Sign(lastOp.arg.direction))

\* C20: a view button sets the view and leaves selectedDate as it is; the
\* Today button sets selectedDate to the current date and leaves the view as
\* it is; neither changes the stored events.
C20_ModeAndDateOrthogonal ==
  [][/\ lastOp'.op = "setMode" =>
          /\ currentView' = lastOp'.arg.view
          /\ selectedDate' = selectedDate
          /\ events' = events
     /\ lastOp'.op = "today" =>
          /\ toDateString(selectedDate', tz) = toDateString(now, tz)
          /\ currentView' = currentView
          /\ events' = events]_vars

\* Today was pressed in the month view, which a view button opened, away
\* from today, and a view button has changed the view away from today's date
C20_Witness ==
  /\ lastOp.op = "today"
  /\ currentView = "month"
  /\ toDateString(lastOp.arg.selectedDate, tz) # toDateString(now, tz)
  /\ selectedDate = now
  /\ Len(events) = 1

-----------------------------------------------------------------------------
(* Claims about drag and drop *)

\* C17: when an event of the timeline is dragged and dropped on the slot of
\* hour h, that event's startTime becomes "hh:00", its other fields and every
\* other event stay as they were, and no event is added or removed; this
\* holds also while a quick event that was created is waiting to be dropped.
C17_DropIsOneUpdate ==
  [][(lastOp'.op = "drop" /\ dragging[1] = "event") =>
       /\ Len(events') = Len(events)
       /\ \A i \in 1..Len(events) :
            IF events[i].id = draggedEvent[1]
            THEN /\ events'[i].startTime = TimeString(lastOp'.arg.hour)
                 /\ DOMAIN events'[i] = DOMAIN events[i] \cup {"startTime"}
                 /\ \A k \in DOMAIN events[i] \ {"startTime"} :
                      events'[i][k] = events[i][k]
            ELSE events'[i] = events[i]]_vars

-----------------------------------------------------------------------------
(* Claims about the week window and the month grid *)

\* C21: for every selectedDate the week window has exactly 7 dates, the first
\* a Sunday and the last a Saturday, each one calendar day after the one
\* before (across the ends of months and years too), and the calendar date
\* of selectedDate is one of them.
C21_WeekWindow ==
  lastOp.op = "weekView" =>
    /\ Len(shown) = 7
    /\ getDay(shown[1], tz) = 0
    /\ getDay(shown[7], tz) = 6
    /\ \A i \in 1..6 : toDateString(shown[i + 1], tz) = toDateString(shown[i], tz) + 1
    /\ \E i \in 1..7 : toDateString(shown[i], tz) = toDateString(selectedDate, tz)

\* the week from Sunday 31 December 2023 to Saturday 6 January 2024, shown
\* for an anchor in the new year
C21_Witness ==
  /\ lastOp.op = "weekView"
  /\ DateOfDay(toDateString(shown[1], tz)) = [year |-> 2023, month |-> 11, day |-> 31]
  /\ DateOfDay(toDateString(shown[7], tz)) = [year |-> 2024, month |-> 0, day |-> 6]
  /\ getFullYear(selectedDate, tz) = 2024
  /\ toDateString(selectedDate, tz) # toDateString(shown[1], tz)

\* the day number of the first day of the month of a date
FirstOfMonth(date, zone) ==
  toDateString(date, zone) - (DateOfDay(toDateString(date, zone)).day - 1)

\* C22: for every selectedDate the month grid has exactly 42 cells on
\* consecutive calendar dates, the first the Sunday on or before the 1st of
\* the month of selectedDate, and the cells flagged isCurrentMonth are exactly
\* the days of that month, each once.
C22_MonthGrid ==
  lastOp.op = "monthView" =>
    LET first == FirstOfMonth(selectedDate, tz)
        c == DateOfDay(first)
        flagged == {i \in 1..Len(shown) : shown[i].isCurrentMonth}
    IN  /\ Len(shown) = 42
        /\ \A i \in 1..41 :
             toDateString(shown[i + 1].date, tz) = toDateString(shown[i].date, tz) + 1
        /\ getDay(shown[1].date, tz) = 0
        /\ toDateString(shown[1].date, tz) <= first
        /\ toDateString(shown[1].date, tz) > first - 7
        /\ {toDateString(shown[i].date, tz) : i \in flagged}
             = first..(first + DaysInMonth(c.year, c.month) - 1)
        /\ Cardinality(flagged) = DaysInMonth(c.year, c.month)

\* the grid of February 2023 (28 days, starting on a Wednesday): the first
\* cell is Sunday 29 January and three cells of January come before the 1st
C22_Witness ==
  /\ lastOp.op = "monthView"
  /\ getFullYear(selectedDate, tz) = 2023
  /\ getMonth(selectedDate, tz) = 1
  /\ DateOfDay(toDateString(shown[1].date, tz)) = [year |-> 2023, month |-> 0, day |-> 29]
  /\ Cardinality({i \in 1..Len(shown) : shown[i].isCurrentMonth}) = 28
  /\ ~shown[3].isCurrentMonth /\ shown[4].isCurrentMonth

-----------------------------------------------------------------------------
(* Claims about what the views show of the store *)

\* two dates fall on the same calendar date: same year, month and day of month
SameCalendarDate(a, b, zone) ==
  /\ getFullYear(a, zone) = getFullYear(b, zone)
  /\ getMonth(a, zone) = getMonth(b, zone)
  /\ getDate(a, zone) = getDate(b, zone)

\* C23: the list the day view computes for the selected date holds every
\* stored event whose calendar date is that of the selected date exactly
\* once, and nothing else.
C23_DayListExact ==
  lastOp.op = "dayView" =>
    /\ \A i \in 1..Len(events) :
         SameCalendarDate(events[i].date, selectedDate, tz) =>
           Cardinality({j \in 1..Len(shown) : shown[j] = events[i]}) = 1
    /\ \A j \in 1..Len(shown) :
         \E i \in 1..Len(events) :
           /\ events[i] = shown[j]
           /\ SameCalendarDate(events[i].date, selectedDate, tz)

C23_Witness ==
  /\ lastOp.op = "dayView"
  /\ Len(events) = 3
  /\ Len(shown) = 2
  /\ \E j \in 1..Len(shown) : shown[j].date # selectedDate

\* C24: the week view's mapping has exactly the seven dates of the selected
\* date's week, Sunday to Saturday, as keys, and the list under each of them
\* is the sequence the day view computes for that date.
C24_WeekListsAreDayLists ==
  lastOp.op = "weekEvents" =>
    /\ DOMAIN shown = {WeekSunday(selectedDate, tz) + i : i \in 0..6}
    /\ \A dateKey \in DOMAIN shown :
         \A t \in 0..(TicksPerDay - 1) :
           shown[dateKey] = dayEvents(events, dateKey * TicksPerDay + t - tz, tz, engine)

C24_Witness ==
  /\ lastOp.op = "weekEvents"
  /\ selectedDate = TicksPerDay
  /\ Len(shown[0]) = 2
  /\ shown[0] # SelectSeq(events, LAMBDA event : toDateString(event.date, tz) = 0)
  /\ Len(shown[1]) = 1

\* the indexes, in store order, of the stored events of a calendar day
RECURSIVE IndexesOn(_, _, _, _)
IndexesOn(evs, day, zone, from) ==
  IF from > Len(evs) THEN << >>
  ELSE IF toDateString(evs[from].date, zone) = day
       THEN <<from>> \o IndexesOn(evs, day, zone, from + 1)
       ELSE IndexesOn(evs, day, zone, from + 1)

\* C25: in a cell of the month view the n events of the cell's date keep
\* their store order; the preview shows the first min(2, n) of them and
\* "+N more" is rendered, with N = n - 2, exactly when n > 2.
C25_MonthCellPreview ==
  lastOp.op = "monthEvents" =>
    \A dateKey \in DOMAIN shown :
      LET at == IndexesOn(events, dateKey, tz, 1)
          n == Len(at)
          cell == shown[dateKey]
      IN  /\ cell.count = n
          /\ Len(cell.preview) = (IF n < 2 THEN n ELSE 2)
          /\ \A j \in 1..Len(cell.preview) : cell.preview[j] = events[at[j]]
          /\ n > 2 => cell.more = <<n - 2>>
          /\ n <= 2 => cell.more = << >>
          /\ Len(cell.preview) + (IF cell.more = << >> THEN 0 ELSE cell.more[1]) = n

C25_Witness ==
  /\ lastOp.op = "monthEvents"
  /\ shown[0].count = 3
  /\ shown[0].more = <<1>>
  /\ Len(shown[0].preview) = 2
  /\ shown[0].preview[1].startTime = TimeString(10)
  /\ shown[0].preview[2].startTime = TimeString(9)

\* C26: the groups of the task list hold every listed event exactly once, in
\* the group of its own calendar date, and the events of a group are in the
\* relative order they have in the list.
C26_GroupsPartitionList ==
  lastOp.op = "taskGroups" =>
    LET list == filteredEvents(events, lastOp.arg.filterMode, now, tz, engine)
    IN  /\ \A i \in 1..Len(list) :
             Cardinality({ p \in (1..Len(shown)) \X (1..Len(list)) :
                             /\ p[2] <= Len(shown[p[1]].events)
                             /\ shown[p[1]].events[p[2]] = list[i] }) = 1
        /\ \A g \in 1..Len(shown) :
             /\ \A j \in 1..Len(shown[g].events) :
                  SameCalendarDate(shown[g].events[j].date,
                                   shown[g].dateKey * TicksPerDay - tz, tz)
             /\ shown[g].events =
                  SelectSeq(list, LAMBDA event :
                    \E j \in 1..Len(shown[g].events) : shown[g].events[j] = event)
        /\ \A g, h \in 1..Len(shown) : shown[g].dateKey = shown[h].dateKey => g = h

C26_Witness ==
  /\ lastOp.op = "taskGroups"
  /\ Len(shown) = 2
  /\ Len(shown[1].events) = 2
  /\ shown[1].events[1].date # shown[1].events[2].date
  /\ shown[1].events[1].id > shown[1].events[2].id

\* C28: every event of the day view's list for the selected date, the events
\* counted as scheduled, is in exactly one of the 24 slots of the timeline,
\* the slot of the hour of its startTime; none is left out.
C28_EveryListedEventInOneSlot ==
  lastOp.op = "timeSlots" =>
    LET list == dayEvents(events, selectedDate, tz, engine)
    IN  \A i \in 1..Len(list) :
          LET slots == { h \in 1..Len(shown) :
                           \E j \in 1..Len(shown[h].events) :
                             shown[h].events[j] = list[i] }
          IN  /\ Cardinality(slots) = 1
              /\ \A h \in slots :
                   /\ Truthy(Get(list[i], "startTime"))
                   /\ shown[h].hour = eventHour(list[i].startTime)
                   /\ Cardinality({ j \in 1..Len(shown[h].events) :
                                      shown[h].events[j] = list[i] }) = 1

-----------------------------------------------------------------------------
(* Claims about the sidebar clock *)

\* C27: a tick of the sidebar's one-second timer, wherever it falls between
\* the user's operations, changes the displayed current time only: the
\* store, the selected date and the view are after it what they were before.
C27_ClockTickFrame ==
  [][lastOp'.op = "clockTick" =>
       /\ events' = events
       /\ selectedDate' = selectedDate
       /\ currentView' = currentView]_vars

C27_Witness ==
  /\ lastOp.op = "clockTick"
  /\ currentTime = 1
  /\ currentView = "week"
  /\ selectedDate = 7 * TicksPerDay
  /\ Len(events) = 1

-----------------------------------------------------------------------------
(* Claims about the task list's delete mode *)

\* C29: whatever filter changes, delete-mode toggles, selections and
\* deletions came before, the selected set holds only ids of events the task
\* list displays under its filter, and a confirmed batch delete removes only
\* events that were displayed when it was confirmed.
C29_SelectionIsDisplayed ==
  /\ SetElements(selectedEvents) \subseteq displayedIds
  /\ (lastOp.op = "batchDelete" /\ lastOp.arg.confirmed) =>
       (IdsOf(lastOp.arg.events) \ IdsOf(events)) \subseteq
         IdsOf(filteredEvents(lastOp.arg.events, lastOp.arg.filterMode, now, tz, engine))

\* C30: outside delete mode nothing is selected; a confirmed batch delete
\* removes every selected id from the store, leaves the other events in
\* place and in order, empties the selection and leaves delete mode; a
\* declined one changes nothing.
C30_BatchDelete ==
  /\ ~deleteMode => selectedEvents = << >>
  /\ lastOp.op = "batchDelete" =>
       IF lastOp.arg.confirmed
       THEN /\ events = SelectSeq(lastOp.arg.events, LAMBDA event :
                          event.id \notin SetElements(lastOp.arg.selectedEvents))
            /\ selectedEvents = << >>
            /\ ~deleteMode
       ELSE /\ events = lastOp.arg.events
            /\ selectedEvents = lastOp.arg.selectedEvents
            /\ deleteMode = lastOp.arg.deleteMode
            /\ filterMode = lastOp.arg.filterMode

C30_Witness ==
  /\ lastOp.op = "batchDelete"
  /\ lastOp.arg.confirmed
  /\ Len(lastOp.arg.events) = 3
  /\ lastOp.arg.selectedEvents = <<3, 1>>
  /\ Len(events) = 1

====
